---- MODULE Spec2Model ----
(***************************************************************************)
(* A model of the Jexi backend (src/app.py and src/models/*.py): the       *)
(* upload-and-classify request, the confirmation request that allocates a  *)
(* job and starts its pipeline thread, the music and speech pipelines, and *)
(* the status endpoints that read the in-memory registry and the persisted *)
(* metadata record.                                                        *)
(*                                                                         *)
(* Environment assumptions, stated once:                                   *)
(*  - str(uuid.uuid4())[:8] yields an identifier not handed out before;    *)
(*    identifiers are modelled as 1, 2, 3, ... in order of allocation.     *)
(*  - Every call into an external engine (torchaudio, Demucs, Whisper,     *)
(*    librosa, DeepFilterNet, numpy, YAMNet, pydub) either returns or      *)
(*    raises an Exception; which one is chosen nondeterministically.       *)
(*  - Creating a directory and writing a file of plain strings succeed.    *)
(*    json.dump of engine-derived metadata may raise after the file was    *)
(*    opened for writing, which leaves a truncated file behind.            *)
(*  - A pipeline thread is preempted only where it blocks: at each engine  *)
(*    call and between the open() and the end of a metadata write.         *)
(*  - A confirmation is preempted between its registry write and its       *)
(*    thread.start(); one confirmation is in that window at a time.        *)
(*                                                                         *)
(* SpecFront is the request layer from the state after construction        *)
(* (uploads, classification, confirmations). Spec is the life of the jobs  *)
(* (confirmations, pipeline threads, status and results reads) from a      *)
(* state in which the uploads have been made. SpecDownload is Spec with    *)
(* the download endpoints, SpecLive is Spec under fair scheduling, and     *)
(* SpecClassifier is one call of classify of either classifier.            *)
(* SpecHelpers is calls of two helper functions of the processors,         *)
(* SpecLimiter the rate limiter and SpecCleanup the cleanup scheduler.      *)
(* os.unlink of a temporary file succeeds when it is called.               *)
(***************************************************************************)
EXTENDS Integers, Sequences, FiniteSets, TLC

\* Bounds of the model: how many file ids and job ids are handed out.
MaxFiles == 2
MaxJobs == 2

\* An optional value (Python's None or a value) is a sequence of length <= 1.
None == << >>
Some(x) == << x >>

---------------------------------------------------------------------------
(* Upload: file names, the extension check and the stored path.            *)

ALLOWED_EXTENSIONS == {"mp3", "wav", "ogg", "flac", "m4a"}

\* A file name is the sequence of its parts between dots: "song.MP3" is
\* <<"song", "MP3">>, "notes" is <<"notes">>, the empty name is << >>.
Filenames ==
    { << >>, <<"notes">>, <<"notes", "txt">>, <<"my song", "wav">>,
      <<"my_song", "wav">>, <<"song", "MP3">> }

\* str.lower() on the extensions that occur.
Lower(s) ==
    CASE s = "MP3" -> "mp3"
      [] s = "WAV" -> "wav"
      [] OTHER -> s

\* '.' in filename and filename.rsplit('.', 1)[1].lower() in ALLOWED_EXTENSIONS
allowed_file(filename) ==
    /\ Len(filename) >= 2
    /\ Lower(filename[Len(filename)]) \in ALLOWED_EXTENSIONS

\* werkzeug's secure_filename on the names that occur: whitespace becomes "_".
secure_filename(filename) ==
    [i \in 1..Len(filename) |->
        IF filename[i] = "my song" THEN "my_song" ELSE filename[i]]

UPLOAD_FOLDER == "uploads"

\* os.path.join(app.config['UPLOAD_FOLDER'], filename)
UploadPath(filename) == <<UPLOAD_FOLDER>> \o filename

\* os.path.basename of a stored path
Basename(path) == Tail(path)

\* audio_path.lower().endswith('.wav')
EndsWithWav(path) == Lower(path[Len(path)]) = "wav"

---------------------------------------------------------------------------
(* YAMNetClassifier: the outcome of each engine call of one classify run.  *)

\* The averaged YAMNet scores, reduced to what _categorize reads: the mass
\* on the music classes, the mass on the speech classes, and the name of
\* the top class.
ScoreVectors ==
    { [music |-> 2, speech |-> 1, top |-> "Music"],
      [music |-> 1, speech |-> 2, top |-> "Speech"],
      [music |-> 1, speech |-> 1, top |-> "Speech"],
      [music |-> 0, speech |-> 0, top |-> "Musical instrument"],
      [music |-> 0, speech |-> 0, top |-> "Silence"] }

\* One classify run's environment: whether pydub converts ("raise": it
\* raises decoding the upload, before the temporary file is made;
\* "export_raise": it raises writing the temporary file), whether
\* librosa.load decodes, and what the model returns (None: it raises).
\* Every raise point is drawn, and every score vector after a clean run.
ClassifyEnvs ==
    { [convert |-> "ok", load |-> "ok", scores |-> Some(v)] :
          v \in ScoreVectors }
    \cup { [convert |-> "raise", load |-> "ok",
            scores |-> Some([music |-> 2, speech |-> 1, top |-> "Music"])],
          [convert |-> "export_raise", load |-> "ok",
            scores |-> Some([music |-> 2, speech |-> 1, top |-> "Music"])],
          [convert |-> "raise", load |-> "raise", scores |-> None],
          [convert |-> "ok", load |-> "raise", scores |-> None],
          [convert |-> "ok", load |-> "ok", scores |-> None] }

\* any(w in top_class.lower() for w in ['music', 'singing', 'instrument'])
HasMusicWord(top) == top \in {"Music", "Musical instrument", "Singing"}

_categorize(v) ==
    IF v.music + v.speech = 0
    THEN IF HasMusicWord(v.top) THEN "music" ELSE "speech"
    ELSE IF v.music > v.speech THEN "music" ELSE "speech"

\* _convert_to_wav: the path handed to librosa.load. A failed conversion is
\* caught there and the original path is used.
_convert_to_wav(audio_path, env) ==
    IF EndsWithWav(audio_path) THEN audio_path
    ELSE IF env.convert = "ok" THEN <<"tmp", "wav">>
    ELSE audio_path

\* classify whose except block answers with a default label.
YAMNetClassifyGuessing(audio_path, env) ==
    LET wav_path == _convert_to_wav(audio_path, env) IN
    IF Len(wav_path) = 0 \/ env.load = "raise" THEN Some("speech")
    ELSE IF env.scores = None THEN Some("speech")
    ELSE Some(_categorize(env.scores[1]))

\* YAMNetClassifier.classify: None when librosa.load (of the path that
\* _convert_to_wav returned) or the model raises, else the classification.
YAMNetClassify(audio_path, env) ==
    LET wav_path == _convert_to_wav(audio_path, env) IN
    IF Len(wav_path) = 0 \/ env.load = "raise" THEN None
    ELSE IF env.scores = None THEN None
    ELSE Some(_categorize(env.scores[1]))

\* The engine calls of one classify run that raised: the conversion (made
\* only for a path that is not a WAV), the decode, the inference (reached
\* only when the decode returned).
RaisedCalls(audio_path, env) ==
    (IF ~EndsWithWav(audio_path) /\ env.convert # "ok"
     THEN {"convert"} ELSE {})
    \cup (IF env.load = "raise" THEN {"load"} ELSE {})
    \cup (IF env.load = "ok" /\ env.scores = None THEN {"model"} ELSE {})

\* The temporary WAV files one YAMNetClassifier.classify run leaves on
\* disk. _convert_to_wav makes the file with NamedTemporaryFile(delete=
\* False) before audio.export; classify unlinks it after librosa.load has
\* returned, and only when _convert_to_wav returned its name.
YAMNetTempLeft(audio_path, env) ==
    IF EndsWithWav(audio_path) \/ env.convert = "raise" THEN 0
    ELSE IF env.convert = "export_raise" THEN 1
    ELSE IF env.load = "raise" THEN 1
    ELSE 0

---------------------------------------------------------------------------
(* State.                                                                  *)

VARIABLES
    uploaded_files,   \* app.py: file id -> [filename, filepath, detected_type]
    file_ids,         \* number of file ids handed out by uuid4
    processing_jobs,  \* app.py: job id -> [status, type]
    job_ids,          \* number of job ids handed out by uuid4
    confirming,       \* a confirm_and_process between its registry write and thread.start()
    thread,           \* job id -> the pipeline thread started for it
    current_progress, \* processor -> (job id -> [percent, message])
    processed,        \* processed/<job id>/: the job directory's files
    written,          \* job id -> every percent written to its progress record, in order
    resp,             \* the response of the request handled last
    temp_files,       \* number of temporary WAV files of the classifiers on disk
    clf,              \* a run of AudioClassifier.classify: its locals and position
    call,             \* the last call of a helper function: its argument and result
    requests,         \* RateLimiter.requests: identifier -> list of timestamps
    now,              \* time.time()
    granted,          \* identifier -> times of the is_allowed calls answered allowed
    running,          \* FileCleanup.running
    loops             \* every _cleanup_loop thread started: its position

utilVars == <<call, requests, now, granted, running, loops>>
reqVars == <<uploaded_files, file_ids, temp_files, clf, utilVars>>
jobVars == <<processing_jobs, job_ids, confirming, thread>>
pipeVars == <<current_progress, processed, written>>
vars == <<uploaded_files, file_ids, processing_jobs, job_ids, confirming,
          thread, current_progress, processed, written, resp, temp_files,
          clf,
          call, requests, now, granted, running, loops>>

ContentTypes == {"music", "speech"}

\* No request has been answered since the last step of a thread.
NoResp == [op |-> "none"]

\* d[k] = v of a Python dict held as a function.
Put(d, k, v) == (k :> v) @@ d

\* del d[k]
Del(d, k) == [x \in DOMAIN d \ {k} |-> d[x]]

\* No helper has been called.
NoCall == [fn |-> "-"]

\* The helpers after construction: an empty rate limiter, a cleanup
\* scheduler that is not running, the clock at its origin.
UtilInit ==
    /\ call = NoCall
    /\ requests = << >>
    /\ now = 0
    /\ granted = << >>
    /\ running = FALSE
    /\ loops = << >>

\* AudioClassifier.classify has not been called: its locals before the
\* first statement.
NoRun ==
    [pc |-> "idle", by |-> "-", cleanup_temp |-> FALSE, duration |-> 0,
     points_to_check |-> << >>, decisions |-> << >>, features |-> None,
     result |-> None]

Init ==
    /\ uploaded_files = << >>
    /\ file_ids = 0
    /\ processing_jobs = << >>
    /\ job_ids = 0
    /\ confirming = None
    /\ thread = << >>
    /\ current_progress = [music |-> << >>, speech |-> << >>]
    /\ written = << >>
    /\ processed = << >>
    /\ resp = NoResp
    /\ temp_files = 0
    /\ clf = NoRun
    /\ UtilInit

---------------------------------------------------------------------------
(* POST /api/upload                                                       *)

\* A request without a file part, or with a file of some name.
UploadRequests ==
    { [has_file |-> FALSE, filename |-> << >>] }
    \cup { [has_file |-> TRUE, filename |-> f] : f \in Filenames }

\* Lines 76-119 of upload_audio: the file is saved, an id is drawn, and
\* the file is classified. The response is tagged with the engine calls
\* that raised during this classification.
UploadAccepted(file_id, filename, filepath, env) ==
    LET result == YAMNetClassify(filepath, env) IN
    /\ file_ids' = file_id
    /\ temp_files' = temp_files + YAMNetTempLeft(filepath, env)
    /\ UNCHANGED <<clf, utilVars>>
    /\ IF result = None
       THEN /\ UNCHANGED uploaded_files
            /\ resp' = [op |-> "upload", code |-> 500,
                        error |-> "Failed to classify audio",
                        raised |-> RaisedCalls(filepath, env)]
       ELSE /\ uploaded_files' =
                  Put(uploaded_files, file_id,
                      [filename |-> filename, filepath |-> filepath,
                       detected_type |-> result[1]])
            /\ resp' = [op |-> "upload", code |-> 200, file_id |-> file_id,
                        detected_type |-> result[1],
                        status |-> "awaiting_confirmation",
                        raised |-> RaisedCalls(filepath, env)]

upload_audio ==
    \E req \in UploadRequests :
        /\ UNCHANGED <<jobVars, pipeVars>>
        /\ IF ~req.has_file
           THEN /\ resp' = [op |-> "upload", code |-> 400,
                            error |-> "No file provided"]
                /\ UNCHANGED reqVars
           ELSE IF req.filename = << >>
           THEN /\ resp' = [op |-> "upload", code |-> 400,
                            error |-> "No file selected"]
                /\ UNCHANGED reqVars
           ELSE IF allowed_file(req.filename)
           THEN /\ file_ids < MaxFiles
                /\ \E env \in ClassifyEnvs :
                     LET filename == secure_filename(req.filename)
                         filepath == UploadPath(filename)
                     IN UploadAccepted(file_ids + 1, filename, filepath,
                                       env)
           ELSE /\ resp' = [op |-> "upload", code |-> 400,
                            error |-> "Invalid file type"]
                /\ UNCHANGED reqVars

---------------------------------------------------------------------------
(* POST /api/process/<file_id>                                             *)

\* The request body's content_type: absent, or any value.
NoOverride == "<absent>"
Overrides == {NoOverride, "music", "speech", "video"}

\* ConfirmedType that ignores the request body.
ConfirmedTypeDetected(file_info, override) == file_info.detected_type

\* data.get('content_type', file_info['detected_type'])
ConfirmedType(file_info, override) ==
    IF override = NoOverride THEN file_info.detected_type ELSE override

\* confirm_rejected with the content type validated after the registry
\* write: the request is answered 400 and the entry stays.
confirm_validates_late ==
    \E file_id \in 1..(MaxFiles + 1), override \in Overrides :
        /\ UNCHANGED <<reqVars, confirming, thread, pipeVars>>
        /\ IF file_id \notin DOMAIN uploaded_files
           THEN /\ resp' = [op |-> "confirm", code |-> 404,
                            error |-> "File ID not found"]
                /\ UNCHANGED <<processing_jobs, job_ids>>
           ELSE /\ ConfirmedType(uploaded_files[file_id], override)
                       \notin ContentTypes
                /\ job_ids < MaxJobs
                /\ job_ids' = job_ids + 1
                /\ processing_jobs' =
                       Put(processing_jobs, job_ids + 1,
                           [status |-> "processing",
                            type |-> ConfirmedType(uploaded_files[file_id],
                                                   override)])
                /\ resp' = [op |-> "confirm", code |-> 400,
                            error |-> "Invalid content type"]

\* Lines 128-138: the two rejections, which answer without touching state.
confirm_rejected ==
    \E file_id \in 1..(MaxFiles + 1), override \in Overrides :
        /\ UNCHANGED <<reqVars, jobVars, pipeVars>>
        /\ IF file_id \notin DOMAIN uploaded_files
           THEN resp' = [op |-> "confirm", code |-> 404,
                         error |-> "File ID not found"]
           ELSE /\ ConfirmedType(uploaded_files[file_id], override)
                       \notin ContentTypes
                /\ resp' = [op |-> "confirm", code |-> 400,
                            error |-> "Invalid content type"]

\* RegisterJob with a job id that is not fresh: the first id is used again.
RegisterJobFirstId(job_id, content_type) ==
    processing_jobs' =
        Put(processing_jobs, 1,
            [status |-> "processing", type |-> content_type])

\* The registry write of lines 145 and 166.
RegisterJob(job_id, content_type) ==
    processing_jobs' =
        Put(processing_jobs, job_id,
            [status |-> "processing", type |-> content_type])

\* Lines 128-145 / 166: validation, a new job id, the registry entry.
confirm_register ==
    \E file_id \in DOMAIN uploaded_files, override \in Overrides :
        LET file_info == uploaded_files[file_id]
            content_type == ConfirmedType(file_info, override)
            job_id == job_ids + 1
        IN /\ confirming = None
           /\ job_ids < MaxJobs
           /\ content_type \in ContentTypes
           /\ job_ids' = job_id
           /\ RegisterJob(job_id, content_type)
           /\ confirming' = Some([job_id |-> job_id, file_id |-> file_id,
                                  override |-> override,
                                  content_type |-> content_type,
                                  filepath |-> file_info.filepath])
           /\ resp' = NoResp
           /\ UNCHANGED <<reqVars, thread, pipeVars>>

\* The thread object of lines 146-149 / 167-170 before it has run: its
\* target and argument, its position in process, the exception its handler
\* caught and the stage that raised it, the locals later stages read, and
\* the stages of the try block whose engine raised and that went on with
\* a fallback.
NewThread(content_type, filepath) ==
    [target |-> content_type, audio_path |-> filepath, pc |-> "start",
     exc |-> None, failed_at |-> "-", clean_audio |-> "-",
     transcript |-> "-", swallowed |-> {}]

\* Lines 146-163 / 167-183: thread.start() and the answer.
confirm_start ==
    /\ confirming # None
    /\ LET c == confirming[1] IN
        /\ thread' = Put(thread, c.job_id,
                         NewThread(c.content_type, c.filepath))
        /\ resp' = [op |-> "confirm", code |-> 200, job_id |-> c.job_id,
                    file_id |-> c.file_id, content_type |-> c.content_type,
                    status |-> "processing"]
    /\ confirming' = None
    /\ UNCHANGED <<reqVars, processing_jobs, job_ids, pipeVars>>

---------------------------------------------------------------------------
(* The processors' shared pieces: progress tracking and the job directory. *)

\* _update_progress keeping one record for the whole processor: the write
\* replaces the record of every job that has one.
_update_progress_one_record(cp, proc, job_id, percent, message) ==
    [cp EXCEPT ![proc] =
        [k \in DOMAIN @ \cup {job_id} |->
            [percent |-> percent, message |-> message]]]

\* _update_progress (both processors): current_progress[job_id] = {...}
_update_progress(cp, proc, job_id, percent, message) ==
    [cp EXCEPT ![proc] =
        Put(@, job_id, [percent |-> percent, message |-> message])]

\* _clear_progress: del current_progress[job_id] when present
_clear_progress(cp, proc, job_id) ==
    [cp EXCEPT ![proc] = IF job_id \in DOMAIN @ THEN Del(@, job_id) ELSE @]

\* get_progress: current_progress.get(job_id, None)
get_progress(proc, job_id) ==
    IF job_id \in DOMAIN current_progress[proc]
    THEN Some(current_progress[proc][job_id])
    ELSE None

\* separate_stems with the four-source Demucs model.
StemNamesFourSources == {"drums", "bass", "other", "vocals"}

\* separate_stems: the files written, one per source of htdemucs_6s.
StemNames == {"drums", "bass", "other", "vocals", "guitar", "piano"}

\* A metadata.json that does not exist, one opened with 'w' and not yet
\* (or never) written to the end, and one holding a whole record.
NoMetadata == [state |-> "absent"]
OpenedMetadata == [state |-> "partial"]
WrittenMetadata(record) == [state |-> "complete", data |-> record]

\* os.makedirs(job_dir, exist_ok=True): a new directory is empty. A job
\* directory holds the stem files, clean_audio.wav, the transcript exports
\* written so far, and metadata.json.
NewJobDir ==
    [stems |-> {}, clean_audio |-> "-", exports |-> {},
     metadata |-> NoMetadata]

makedirs(dirs, job_id) ==
    IF job_id \in DOMAIN dirs THEN dirs ELSE Put(dirs, job_id, NewJobDir)

\* OpenMetadata with a path that leaves the job id out: every job opens the
\* metadata file of the first job directory.
OpenMetadataSharedPath(dirs, job_id) ==
    LET made == makedirs(dirs, job_id) IN
    IF 1 \in DOMAIN made
    THEN [made EXCEPT ![1].metadata = OpenedMetadata]
    ELSE made

\* save_metadata up to open(metadata_path, 'w'): the file exists and is empty.
OpenMetadata(dirs, job_id) ==
    [makedirs(dirs, job_id) EXCEPT ![job_id].metadata = OpenedMetadata]

\* DumpMetadata that never gets its bytes to the file.
DumpMetadataLost(dirs, job_id, record) == dirs

\* save_metadata from json.dump to the end of the with block.
DumpMetadata(dirs, job_id, record) ==
    [dirs EXCEPT ![job_id].metadata = WrittenMetadata(record)]

\* datetime.now().strftime(...): the clock is not modelled.
Now == "now"

\* ErrorMetadata that drops str(e) for a fixed text.
ErrorMetadataUnknown(job_id, e) ==
    [job_id |-> job_id, status |-> "failed", error |-> "Unknown error",
     processed_at |-> Now]

\* The failure record of the except blocks.
ErrorMetadata(job_id, e) ==
    [job_id |-> job_id, status |-> "failed", error |-> e,
     processed_at |-> Now]

\* get_metadata: None without a file, the record of a whole file; json.load
\* raises on a file that was opened for writing and not finished.
MetadataRaises(job_id) ==
    /\ job_id \in DOMAIN processed
    /\ processed[job_id].metadata.state = "partial"

\* get_metadata that takes only the record of a completed job for a record.
get_metadata_completed_only(job_id) ==
    IF job_id \in DOMAIN processed
       /\ processed[job_id].metadata.state = "complete"
       /\ processed[job_id].metadata.data.status = "completed"
    THEN Some(processed[job_id].metadata.data)
    ELSE None

get_metadata(job_id) ==
    IF job_id \in DOMAIN processed
       /\ processed[job_id].metadata.state = "complete"
    THEN Some(processed[job_id].metadata.data)
    ELSE None

\* get_status answering a missing record as a job still in progress.
get_status_missing_is_processing(job_id) ==
    LET metadata == get_metadata(job_id) IN
    IF metadata = None \/ metadata[1].status \notin {"completed", "failed"}
    THEN [status |-> "processing", job_id |-> job_id, progress |-> None]
    ELSE [status |-> metadata[1].status, job_id |-> job_id]

\* get_status (both processors read the same processed/ directory).
get_status(job_id) ==
    LET metadata == get_metadata(job_id) IN
    IF metadata = None
    THEN [status |-> "not_found", message |-> "Job ID not found"]
    ELSE IF metadata[1].status = "completed"
    THEN [status |-> "completed", job_id |-> job_id]
    ELSE IF metadata[1].status = "failed"
    THEN [status |-> "failed", job_id |-> job_id,
          error |-> metadata[1].error]
    ELSE [status |-> "processing", job_id |-> job_id, progress |-> None]

\* The percents a stage of process writes when nothing raises, in order,
\* with separate_stems reporting its 60 after process's 70.
ProgressPercentsStemsLate(target, pc) ==
    CASE target = "music" /\ pc = "start" -> <<0, 10>>
      [] target = "music" /\ pc = "load" -> <<20>>
      [] target = "music" /\ pc = "demucs" -> <<70, 60, 75>>
      [] target = "music" /\ pc = "whisper" -> <<90, 95>>
      [] target = "music" /\ pc = "analyze" -> <<100>>
      [] target = "speech" /\ pc = "start" -> <<0, 10>>
      [] target = "speech" /\ pc = "load" -> <<25>>
      [] target = "speech" /\ pc = "denoise" -> <<50>>
      [] target = "speech" /\ pc = "whisper" -> <<85, 90>>
      [] target = "speech" /\ pc = "dump" -> <<100>>

\* The percents a stage of process writes when nothing raises, in order
\* (music_processor.py 53-79 with 176 and 182, speech_processor.py 51-101).
\* The last one is the value the stage leaves in current_progress.
ProgressPercents(target, pc) ==
    CASE target = "music" /\ pc = "start" -> <<0, 10>>
      [] target = "music" /\ pc = "load" -> <<20>>
      [] target = "music" /\ pc = "demucs" -> <<60, 70, 75>>
      [] target = "music" /\ pc = "whisper" -> <<90, 95>>
      [] target = "music" /\ pc = "analyze" -> <<100>>
      [] target = "speech" /\ pc = "start" -> <<0, 10>>
      [] target = "speech" /\ pc = "load" -> <<25>>
      [] target = "speech" /\ pc = "denoise" -> <<50>>
      [] target = "speech" /\ pc = "whisper" -> <<85, 90>>
      [] target = "speech" /\ pc = "dump" -> <<100>>

\* The log of the percents _update_progress was called with for job_id,
\* extended by the calls of one step.
Wrote(job_id, percents) ==
    Put(written, job_id,
        (IF job_id \in DOMAIN written THEN written[job_id] ELSE << >>)
            \o percents)

---------------------------------------------------------------------------
(* The pipeline threads. t is the thread's record, job_id its job.         *)

ThreadAt(job_id, target, pc) ==
    /\ job_id \in DOMAIN thread
    /\ thread[job_id].target = target
    /\ thread[job_id].pc = pc

Goto(job_id, pc) == thread' = [thread EXCEPT ![job_id].pc = pc]

\* f"Error: {str(e)}"
ErrorMessage(e) == <<"Error: ", e>>

\* Raised without the handler's _update_progress(job_id, -1, ...).
RaisedNoSentinel(job_id, proc, e) ==
    /\ thread' = [thread EXCEPT ![job_id].pc = "dump_error",
                                ![job_id].exc = Some(e),
                                ![job_id].failed_at = thread[job_id].pc,
                                ![job_id].clean_audio = "-",
                                ![job_id].transcript = "-",
                                ![job_id].swallowed = {}]
    /\ UNCHANGED <<current_progress, written>>
    /\ processed' = OpenMetadata(processed, job_id)

\* An engine call raised inside the try block of process: the except block
\* up to the open() of save_metadata. The try block's locals are dead.
Raised(job_id, proc, e) ==
    /\ thread' = [thread EXCEPT ![job_id].pc = "dump_error",
                                ![job_id].exc = Some(e),
                                ![job_id].clean_audio = "-",
                                ![job_id].transcript = "-",
                                ![job_id].failed_at = thread[job_id].pc,
                                ![job_id].swallowed = {}]
    /\ current_progress' =
           _update_progress(current_progress, proc, job_id, -1,
                            ErrorMessage(e))
    /\ written' = Wrote(job_id, <<-1>>)
    /\ processed' = OpenMetadata(processed, job_id)

\* The except block's json.dump of the failure record, and the return.
dump_error(job_id) ==
    /\ job_id \in DOMAIN thread
    /\ thread[job_id].pc = "dump_error"
    /\ processed' = DumpMetadata(processed, job_id,
                        ErrorMetadata(job_id, thread[job_id].exc[1]))
    /\ Goto(job_id, "returned")
    /\ resp' = NoResp
    /\ UNCHANGED <<reqVars, processing_jobs, job_ids, confirming,
                   current_progress, written>>

Outcomes == {"ok", "raise"}

\* --- MusicProcessor.process ---

\* Lines 53-62: progress 0, the job directory, progress 10.
music_start(job_id) ==
    /\ ThreadAt(job_id, "music", "start")
    /\ current_progress' =
           _update_progress(current_progress, "music", job_id, 10,
                            "Separating audio stems...")
    /\ written' = Wrote(job_id, ProgressPercents("music", "start"))
    /\ processed' = makedirs(processed, job_id)
    /\ Goto(job_id, "load")
    /\ resp' = NoResp
    /\ UNCHANGED <<reqVars, processing_jobs, job_ids, confirming>>

\* separate_stems, lines 158-176: torchaudio.load, then progress 20.
music_load(job_id) ==
    /\ ThreadAt(job_id, "music", "load")
    /\ \E outcome \in Outcomes :
        IF outcome = "ok"
        THEN /\ current_progress' =
                    _update_progress(current_progress, "music", job_id, 20,
                                     "Processing audio with Demucs AI...")
             /\ written' = Wrote(job_id, ProgressPercents("music", "load"))
             /\ Goto(job_id, "demucs")
             /\ UNCHANGED processed
        ELSE Raised(job_id, "music", "torchaudio.load failed")
    /\ resp' = NoResp
    /\ UNCHANGED <<reqVars, processing_jobs, job_ids, confirming>>

\* separate_stems, lines 178-205, and process, lines 64-69: apply_model,
\* the six stem files, progress 60, 70, 75.
music_demucs(job_id) ==
    /\ ThreadAt(job_id, "music", "demucs")
    /\ \E outcome \in Outcomes :
        IF outcome = "ok"
        THEN /\ processed' = [processed EXCEPT ![job_id].stems = StemNames]
             /\ current_progress' =
                    _update_progress(current_progress, "music", job_id, 75,
                                     "Transcribing lyrics...")
             /\ written' = Wrote(job_id, ProgressPercents("music", "demucs"))
             /\ Goto(job_id, "whisper")
        ELSE Raised(job_id, "music", "apply_model failed")
    /\ resp' = NoResp
    /\ UNCHANGED <<reqVars, processing_jobs, job_ids, confirming>>

\* transcribe_lyrics: the result, or the placeholder of its except block.
transcribe_lyrics(outcome) ==
    IF outcome = "ok" THEN "lyrics of vocals.wav" ELSE "Transcription failed"

\* Lines 70-77: transcribe_lyrics, progress 90, 95.
music_whisper(job_id) ==
    /\ ThreadAt(job_id, "music", "whisper")
    /\ \E outcome \in Outcomes :
        thread' = [thread EXCEPT ![job_id].pc = "analyze",
                       ![job_id].transcript = transcribe_lyrics(outcome),
                       ![job_id].swallowed =
                           IF outcome = "raise" THEN @ \cup {"whisper"}
                           ELSE @]
    /\ current_progress' =
           _update_progress(current_progress, "music", job_id, 95,
                            "Analyzing audio properties...")
    /\ written' = Wrote(job_id, ProgressPercents("music", "whisper"))
    /\ resp' = NoResp
    /\ UNCHANGED <<reqVars, processing_jobs, job_ids, confirming, processed>>

\* Lines 83-100: the completed record of a music job.
MusicMetadata(job_id, t, dir) ==
    [job_id |-> job_id, filename |-> Basename(t.audio_path),
     status |-> "completed", content_type |-> "music",
     analysis |-> "key, bpm, duration, sample_rate",
     lyrics |-> t.transcript, stems |-> dir.stems, processed_at |-> Now]

\* Lines 78-103: analyze_audio, progress 100, save_metadata up to open().
music_analyze(job_id) ==
    /\ ThreadAt(job_id, "music", "analyze")
    /\ \E outcome \in Outcomes :
        IF outcome = "ok"
        THEN /\ current_progress' =
                    _update_progress(current_progress, "music", job_id, 100,
                                     "Processing complete!")
             /\ written' = Wrote(job_id, ProgressPercents("music", "analyze"))
             /\ processed' = OpenMetadata(processed, job_id)
             /\ Goto(job_id, "dump")
        ELSE Raised(job_id, "music", "analyze_audio failed")
    /\ resp' = NoResp
    /\ UNCHANGED <<reqVars, processing_jobs, job_ids, confirming>>

\* Lines 103-112: json.dump of the record, _clear_progress, return.
music_dump(job_id) ==
    /\ ThreadAt(job_id, "music", "dump")
    /\ \E outcome \in Outcomes :
        IF outcome = "ok"
        THEN /\ processed' =
                    DumpMetadata(processed, job_id,
                        MusicMetadata(job_id, thread[job_id],
                                      processed[job_id]))
             /\ current_progress' =
                    _clear_progress(current_progress, "music", job_id)
             /\ UNCHANGED written
             /\ Goto(job_id, "returned")
        ELSE Raised(job_id, "music", "json.dump failed")
    /\ resp' = NoResp
    /\ UNCHANGED <<reqVars, processing_jobs, job_ids, confirming>>

\* --- SpeechProcessor.process ---

\* Lines 51-59: progress 0, the job directory, progress 10.
speech_start(job_id) ==
    /\ ThreadAt(job_id, "speech", "start")
    /\ current_progress' =
           _update_progress(current_progress, "speech", job_id, 10,
                            "Loading audio file...")
    /\ written' = Wrote(job_id, ProgressPercents("speech", "start"))
    /\ processed' = makedirs(processed, job_id)
    /\ Goto(job_id, "load")
    /\ resp' = NoResp
    /\ UNCHANGED <<reqVars, processing_jobs, job_ids, confirming>>

\* Lines 60-66: librosa.load and get_duration, then progress 25.
speech_load(job_id) ==
    /\ ThreadAt(job_id, "speech", "load")
    /\ \E outcome \in Outcomes :
        IF outcome = "ok"
        THEN /\ current_progress' =
                    _update_progress(current_progress, "speech", job_id, 25,
                                     "Cleaning audio with AI noise reduction...")
             /\ written' = Wrote(job_id, ProgressPercents("speech", "load"))
             /\ Goto(job_id, "denoise")
             /\ UNCHANGED processed
        ELSE Raised(job_id, "speech", "librosa.load failed")
    /\ resp' = NoResp
    /\ UNCHANGED <<reqVars, processing_jobs, job_ids, confirming>>

\* The waveform librosa.load returned, and what DeepFilterNet makes of it.
LoadedAudio == "loaded audio"
Enhanced(audio) == "enhanced audio"

\* reduce_noise whose except block returns silence instead of its argument.
reduce_noise_silence(audio, outcome) ==
    IF outcome = "ok" THEN Enhanced(audio) ELSE "silence"

\* reduce_noise: the enhanced audio, or in its except block the argument.
reduce_noise(audio, outcome) ==
    IF outcome = "ok" THEN Enhanced(audio) ELSE audio

\* Lines 67-72: reduce_noise, progress 50.
speech_denoise(job_id) ==
    /\ ThreadAt(job_id, "speech", "denoise")
    /\ \E outcome \in Outcomes :
        thread' = [thread EXCEPT ![job_id].pc = "whisper",
                       ![job_id].clean_audio =
                           reduce_noise(LoadedAudio, outcome),
                       ![job_id].swallowed =
                           IF outcome = "raise" THEN @ \cup {"denoise"}
                           ELSE @]
    /\ current_progress' =
           _update_progress(current_progress, "speech", job_id, 50,
                            "Transcribing speech to text...")
    /\ written' = Wrote(job_id, ProgressPercents("speech", "denoise"))
    /\ resp' = NoResp
    /\ UNCHANGED <<reqVars, processing_jobs, job_ids, confirming, processed>>

\* What Whisper hears in a waveform.
WhisperText(audio) ==
    IF audio = LoadedAudio THEN "text of loaded audio"
    ELSE "text of enhanced audio"

\* transcribe_speech: the transcript, or the placeholder of its except block.
transcribe_speech(audio, outcome) ==
    IF outcome = "ok" THEN WhisperText(audio) ELSE "Transcription failed"

\* Lines 73-79: transcribe_speech, progress 85, 90.
speech_whisper(job_id) ==
    /\ ThreadAt(job_id, "speech", "whisper")
    /\ \E outcome \in Outcomes :
        thread' = [thread EXCEPT ![job_id].pc = "save",
                       ![job_id].transcript =
                           transcribe_speech(thread[job_id].clean_audio,
                                             outcome),
                       ![job_id].swallowed =
                           IF outcome = "raise" THEN @ \cup {"whisper"}
                           ELSE @]
    /\ current_progress' =
           _update_progress(current_progress, "speech", job_id, 90,
                            "Saving processed audio...")
    /\ written' = Wrote(job_id, ProgressPercents("speech", "whisper"))
    /\ resp' = NoResp
    /\ UNCHANGED <<reqVars, processing_jobs, job_ids, confirming, processed>>

\* save_audio: audio / np.max(np.abs(audio)) written as WAV.
Normalized(audio) ==
    IF audio = LoadedAudio THEN "normalized loaded audio"
    ELSE "normalized enhanced audio"

\* Lines 85-95: the completed record of a speech job.
SpeechMetadata(job_id, t) ==
    [job_id |-> job_id, filename |-> Basename(t.audio_path),
     status |-> "completed", content_type |-> "speech",
     duration |-> "m:ss", sample_rate |-> "16000",
     transcript |-> t.transcript, clean_audio_path |-> "clean_audio.wav",
     processed_at |-> Now]

\* Lines 80-98: save_audio (np.max raises on an empty waveform), then
\* save_metadata up to open().
speech_save(job_id) ==
    /\ ThreadAt(job_id, "speech", "save")
    /\ \E outcome \in Outcomes :
        IF outcome = "ok"
        THEN /\ processed' =
                    OpenMetadata(
                        [processed EXCEPT ![job_id].clean_audio =
                             Normalized(thread[job_id].clean_audio)],
                        job_id)
             /\ Goto(job_id, "dump")
             /\ UNCHANGED <<current_progress, written>>
        ELSE Raised(job_id, "speech", "save_audio failed")
    /\ resp' = NoResp
    /\ UNCHANGED <<reqVars, processing_jobs, job_ids, confirming>>

\* Lines 98-108: json.dump of the record, progress 100, _clear_progress,
\* return.
speech_dump(job_id) ==
    /\ ThreadAt(job_id, "speech", "dump")
    /\ \E outcome \in Outcomes :
        IF outcome = "ok"
        THEN /\ processed' =
                    DumpMetadata(processed, job_id,
                        SpeechMetadata(job_id, thread[job_id]))
             /\ current_progress' =
                    _clear_progress(current_progress, "speech", job_id)
             /\ written' = Wrote(job_id, ProgressPercents("speech", "dump"))
             /\ Goto(job_id, "returned")
        ELSE Raised(job_id, "speech", "json.dump failed")
    /\ resp' = NoResp
    /\ UNCHANGED <<reqVars, processing_jobs, job_ids, confirming>>

\* --- app.py: process_music_background / process_speech_background ---

\* A runner that leaves the registry entry as it is.
FinishJobLeavesEntry(job_id) ==
    UNCHANGED processing_jobs

\* process returned (it catches every Exception itself, so the except
\* branch of the background function is not taken): the registry write.
FinishJob(job_id) ==
    processing_jobs' =
        [processing_jobs EXCEPT ![job_id] =
            [status |-> "completed", type |-> thread[job_id].target]]

background_finish(job_id) ==
    /\ job_id \in DOMAIN thread
    /\ thread[job_id].pc = "returned"
    /\ FinishJob(job_id)
    /\ Goto(job_id, "done")
    /\ resp' = NoResp
    /\ UNCHANGED <<reqVars, job_ids, confirming, pipeVars>>

---------------------------------------------------------------------------
(* GET /api/process/music/<job_id>/status and .../speech/<job_id>/status   *)

\* StatusResponse that reads the persisted record before the registry.
StatusResponseDiskFirst(proc, job_id) ==
    IF get_metadata(job_id) # None
    THEN [code |-> 200] @@ get_status(job_id)
    ELSE IF job_id \in DOMAIN processing_jobs
    THEN [code |-> 200, status |-> processing_jobs[job_id].status,
          job_id |-> job_id, progress |-> None]
    ELSE [code |-> 200] @@ get_status(job_id)

\* get_music_status / get_speech_status: `proc` is the processor whose
\* progress and get_status the endpoint uses.
StatusResponse(proc, job_id) ==
    LET job_info == processing_jobs[job_id]
        progress_info == get_progress(proc, job_id)
        from_disk ==
            IF MetadataRaises(job_id)
            THEN [code |-> 500, status |-> "error"]
            ELSE [code |-> 200] @@ get_status(job_id)
    IN IF job_id \in DOMAIN processing_jobs
       THEN IF job_info.status = "processing"
            THEN [code |-> 200, status |-> "processing", job_id |-> job_id,
                  progress |-> IF progress_info = None THEN None
                               ELSE Some(progress_info[1].percent)]
            ELSE IF job_info.status = "failed"
            THEN [code |-> 200, status |-> "failed", job_id |-> job_id,
                  error |-> job_info.error]
            ELSE from_disk
       ELSE from_disk

\* A status read. Its answer is StatusResponse(proc, job_id) of the state it
\* reads; the read changes no state of the program, and resp records that
\* a status read was answered.
get_status_endpoint ==
    /\ resp' = [op |-> "status"]
    /\ UNCHANGED <<reqVars, jobVars, pipeVars>>

---------------------------------------------------------------------------
(* GET /api/process/music/<job_id> and GET /api/process/speech/<job_id>    *)

\* get_music_results / get_speech_results: the registry is not read. A
\* record of the other content type lacks the keys the endpoint reads
\* (metadata['stems'], metadata['transcript']) and the request ends 500.
ResultsResponse(proc, job_id) ==
    LET metadata == get_metadata(job_id) IN
    IF MetadataRaises(job_id)
    THEN [code |-> 500, error |-> "Internal Server Error"]
    ELSE IF metadata = None
    THEN [code |-> 404, error |-> "Job not found"]
    ELSE IF metadata[1].status # "completed"
    THEN [code |-> 400, error |-> "Job not completed yet",
          status |-> metadata[1].status]
    ELSE IF metadata[1].content_type # proc
    THEN [code |-> 500, error |-> "Internal Server Error"]
    ELSE [code |-> 200, job_id |-> job_id, status |-> "completed",
          metadata |-> metadata[1]]

\* A results read: answered with ResultsResponse(proc, job_id), no state of
\* the program changed.
get_results_endpoint ==
    /\ resp' = [op |-> "results"]
    /\ UNCHANGED <<reqVars, jobVars, pipeVars>>

---------------------------------------------------------------------------
(* The download endpoints.                                                 *)

\* get_music_results: the stem names it builds download URLs for.
ResultStemNames == {"vocals", "drums", "bass", "guitar", "piano", "other"}

TranscriptFormats == {"txt", "json", "srt"}

\* The <format> of a transcript download request: the three formats, and
\* one that is none of them.
RequestedFormats == TranscriptFormats \cup {"pdf"}

\* The links of a results answer: music has one per stem name, speech the
\* cleaned audio and the three transcript exports.
ResultLinks(proc) ==
    IF proc = "music"
    THEN { [kind |-> "stem", name |-> n] : n \in ResultStemNames }
    ELSE { [kind |-> "audio", name |-> "clean_audio"] }
         \cup { [kind |-> "transcript", name |-> f] :
                    f \in TranscriptFormats }

\* download_stem: os.path.exists of processed/<job_id>/stems/<stem_file>.
DownloadStemResponse(job_id, stem_file) ==
    IF job_id \in DOMAIN processed /\ stem_file \in processed[job_id].stems
    THEN [code |-> 200, file |-> <<job_id, "stems", stem_file>>]
    ELSE [code |-> 404, error |-> "File not found"]

\* download_speech_audio: os.path.exists of processed/<job_id>/<filename>,
\* for the file name the results answer links to.
DownloadSpeechAudioResponse(job_id) ==
    IF job_id \in DOMAIN processed /\ processed[job_id].clean_audio # "-"
    THEN [code |-> 200, file |-> <<job_id, "clean_audio">>]
    ELSE [code |-> 404, error |-> "File not found"]

\* download_transcript: the format check, then export_transcript_<format>,
\* which reads the metadata (json.load raising on a truncated file is caught
\* by the endpoint) and, when there is a record, writes the export file.
DownloadTranscriptResponse(job_id, format) ==
    IF format \notin TranscriptFormats
    THEN [code |-> 400, error |-> "Invalid format. Use: txt, json, or srt"]
    ELSE IF MetadataRaises(job_id)
    THEN [code |-> 500, error |-> "JSONDecodeError"]
    ELSE IF get_metadata(job_id) = None
    THEN [code |-> 404, error |-> "Transcript not found"]
    ELSE [code |-> 200, file |-> <<job_id, "transcript", format>>]

\* The answer to a request for a link of a results answer.
LinkResponse(job_id, link) ==
    CASE link.kind = "stem" -> DownloadStemResponse(job_id, link.name)
      [] link.kind = "audio" -> DownloadSpeechAudioResponse(job_id)
      [] OTHER -> DownloadTranscriptResponse(job_id, link.name)

\* Whether the file a link names is in the job directory.
LinkedFileExists(job_id, link) ==
    /\ job_id \in DOMAIN processed
    /\ CASE link.kind = "stem" -> link.name \in processed[job_id].stems
         [] link.kind = "audio" -> processed[job_id].clean_audio # "-"
         [] OTHER -> link.name \in processed[job_id].exports

\* The job ids a client may ask about: every id handed out, and one more.
PolledIds == 1..(MaxJobs + 1)

download_stem ==
    /\ resp' = [op |-> "download"]
    /\ UNCHANGED <<reqVars, jobVars, pipeVars>>

download_speech_audio ==
    /\ resp' = [op |-> "download"]
    /\ UNCHANGED <<reqVars, jobVars, pipeVars>>

\* A transcript download answered 200 has written processed/<job_id>/
\* transcript.<format> (again, when it was there).
download_transcript ==
    \E job_id \in PolledIds, format \in RequestedFormats :
        /\ processed' =
               IF DownloadTranscriptResponse(job_id, format).code = 200
               THEN [processed EXCEPT ![job_id].exports = @ \cup {format}]
               ELSE processed
        /\ resp' = [op |-> "download"]
        /\ UNCHANGED <<reqVars, jobVars, current_progress, written>>

---------------------------------------------------------------------------
(* Helper functions of the processors.                                     *)
(* Sample amplitudes are whole thousandths of full scale; times are whole  *)
(* milliseconds.                                                           *)

\* How many samples a stem has at most.
MaxSamples == 3

Amplitudes == {-10, 0, 10, 11, 20}

\* The stems _check_stem_activity is called with.
StemTensors == UNION { [1..n -> Amplitudes] : n \in 0..MaxSamples }

\* torch.mean(stem_tensor ** 2), times the number of samples.
RECURSIVE SumOfSquares(_)
SumOfSquares(stem_tensor) ==
    IF stem_tensor = << >> THEN 0
    ELSE Head(stem_tensor) * Head(stem_tensor)
             + SumOfSquares(Tail(stem_tensor))

\* threshold = 0.01
threshold == 10

\* _check_stem_activity with a threshold that counts as active.
_check_stem_activity_inclusive(stem_tensor) ==
    /\ Len(stem_tensor) > 0
    /\ SumOfSquares(stem_tensor)
           >= threshold * threshold * Len(stem_tensor)

\* _check_stem_activity: rms = sqrt(mean(x ** 2)) and rms > threshold,
\* compared as mean(x ** 2) > threshold ** 2, both sides being >= 0. The
\* mean of no samples is nan, and nan > threshold is False.
_check_stem_activity(stem_tensor) ==
    /\ Len(stem_tensor) > 0
    /\ SumOfSquares(stem_tensor) > threshold * threshold * Len(stem_tensor)

check_stem_activity ==
    /\ \E stem_tensor \in StemTensors :
          call' = [fn |-> "_check_stem_activity", arg |-> stem_tensor,
                   result |-> _check_stem_activity(stem_tensor)]
    /\ UNCHANGED <<uploaded_files, file_ids, temp_files, clf, jobVars,
                   pipeVars, resp, requests, now, granted, running, loops>>

\* The times _format_timestamp_srt is called with, in milliseconds; the
\* argument of the call is the double nearest to that many thousandths.
TimesMs ==
    {0, 1, 290, 999, 1000, 1001, 1130, 2010, 4350, 59999, 60000, 75400,
     3599999, 3600000, 3661001, 86399990, 360000500}

\* The times of TimesMs whose double lies below the decimal value by
\* enough that (seconds % 1) * 1000 comes out below the whole number of
\* milliseconds (IEEE 754 binary64, as CPython computes it): 1.001 % 1 is
\* 0.000999999999999889, 4.35 % 1 is 0.34999999999999964.
ProductBelowWhole == {1001, 1130, 2010, 4350, 3599999}

\* int((seconds % 1) * 1000): int() truncates toward zero.
FractionMillis(ms) ==
    IF ms \in ProductBelowWhole THEN (ms % 1000) - 1 ELSE ms % 1000

\* The decimal digits of n, most significant first.
RECURSIVE Digits(_)
Digits(n) == IF n < 10 THEN <<n>> ELSE Append(Digits(n \div 10), n % 10)

\* f"{n:0{width}d}": zero-padded on the left to at least `width` digits.
RECURSIVE ZeroPadded(_, _)
ZeroPadded(digits, width) ==
    IF Len(digits) >= width THEN digits
    ELSE ZeroPadded(<<0>> \o digits, width)

\* _format_timestamp_srt: the four fields of "HH:MM:SS,mmm" as digits. The
\* floor divisions and remainders by 3600 and 60 are exact on these times.
_format_timestamp_srt(ms) ==
    LET hours == ms \div 3600000
        minutes == (ms % 3600000) \div 60000
        secs == (ms % 60000) \div 1000
        millis == FractionMillis(ms)
    IN [HH |-> ZeroPadded(Digits(hours), 2),
        MM |-> ZeroPadded(Digits(minutes), 2),
        SS |-> ZeroPadded(Digits(secs), 2),
        mmm |-> ZeroPadded(Digits(millis), 3)]

format_timestamp_srt ==
    /\ \E ms \in TimesMs :
          call' = [fn |-> "_format_timestamp_srt", arg |-> ms,
                   result |-> _format_timestamp_srt(ms)]
    /\ UNCHANGED <<uploaded_files, file_ids, temp_files, clf, jobVars,
                   pipeVars, resp, requests, now, granted, running, loops>>

\* Calls of the helper functions, from the state after construction.
NextHelpers ==
    \/ check_stem_activity
    \/ format_timestamp_srt

SpecHelpers == Init /\ [][NextHelpers]_vars

---------------------------------------------------------------------------
(* RateLimiter (src/BACKEND/utils/rate_limiter.py). Times are whole        *)
(* seconds; several calls may fall on the same time.                       *)

\* self.max_requests and self.time_window of the limiter under test, and
\* the time up to which the clock is followed.
max_requests == 2
time_window == 3
MaxTime == 5

Identifiers == {"10.0.0.1", "10.0.0.2"}

\* self.requests[identifier] of a defaultdict(list)
History(identifier) ==
    IF identifier \in DOMAIN requests THEN requests[identifier] ELSE << >>

\* [t for t in request_times if current_time - t < self.time_window]
StillInWindow(request_times, current_time) ==
    LET recent(t) == current_time - t < time_window
    IN SelectSeq(request_times, recent)

\* The limit test with a limiter that lets one request more through.
limit_exceeded_above(request_times) ==
    Len(request_times) > max_requests

\* len(request_times) >= self.max_requests
limit_exceeded(request_times) ==
    Len(request_times) >= max_requests

\* min(request_times)
RECURSIVE Oldest(_)
Oldest(request_times) ==
    IF Len(request_times) = 1 THEN request_times[1]
    ELSE LET rest == Oldest(Tail(request_times))
         IN IF request_times[1] <= rest THEN request_times[1] ELSE rest

\* is_allowed: the pruned history is stored back in either case; an allowed
\* call appends its time. `granted` logs the times of the allowed calls.
is_allowed ==
    /\ \E identifier \in Identifiers :
        LET current_time == now
            request_times == StillInWindow(History(identifier), current_time)
        IN IF limit_exceeded(request_times)
           THEN /\ requests' = Put(requests, identifier, request_times)
                /\ call' = [fn |-> "is_allowed", identifier |-> identifier,
                            allowed |-> FALSE, remaining |-> 0,
                            reset_time |-> Oldest(request_times)
                                               + time_window - current_time]
                /\ UNCHANGED granted
           ELSE /\ requests' = Put(requests, identifier,
                                   Append(request_times, current_time))
                /\ call' = [fn |-> "is_allowed", identifier |-> identifier,
                            allowed |-> TRUE,
                            remaining |-> max_requests
                                              - (Len(request_times) + 1),
                            reset_time |-> time_window]
                /\ granted' =
                       Put(granted, identifier,
                           Append(IF identifier \in DOMAIN granted
                                  THEN granted[identifier] ELSE << >>,
                                  current_time))
    /\ UNCHANGED <<uploaded_files, file_ids, temp_files, clf, jobVars,
                   pipeVars, resp, now, running, loops>>

\* reset: the identifier's history is deleted; the log of its allowed calls
\* starts again with it.
reset ==
    /\ \E identifier \in Identifiers :
        /\ requests' = IF identifier \in DOMAIN requests
                       THEN Del(requests, identifier) ELSE requests
        /\ granted' = IF identifier \in DOMAIN granted
                      THEN Del(granted, identifier) ELSE granted
        /\ call' = [fn |-> "reset", identifier |-> identifier]
    /\ UNCHANGED <<uploaded_files, file_ids, temp_files, clf, jobVars,
                   pipeVars, resp, now, running, loops>>

\* time.time() moves on between two calls.
time_passes ==
    /\ now < MaxTime
    /\ now' = now + 1
    /\ UNCHANGED <<uploaded_files, file_ids, temp_files, clf, jobVars,
                   pipeVars, resp, call, requests, granted, running, loops>>

NextLimiter ==
    \/ is_allowed
    \/ reset
    \/ time_passes

SpecLimiter == Init /\ [][NextLimiter]_vars

---------------------------------------------------------------------------
(* FileCleanup (src/utils/file_cleanup.py): the scheduler and its loop     *)
(* threads. processed/ and uploads/ are empty in the state after           *)
(* construction, so a cleanup pass finds nothing to remove.                *)

\* How many loop threads are started at most.
MaxLoops == 3

\* A _cleanup_loop thread that has been started and has not run yet. It is
\* at the test of `while self.running`; `stopped` tells that
\* stop_cleanup_scheduler was called since it started, and
\* `passes_after_stop` that it began a cleanup pass after that.
NewLoop == [pc |-> "test", stopped |-> FALSE, passes_after_stop |-> FALSE]

LiveLoops == {i \in DOMAIN loops : loops[i].pc # "exited"}

\* start_cleanup_scheduler: nothing when running is set, else the flag and
\* a new daemon thread.
start_cleanup_scheduler ==
    /\ IF running
       THEN /\ call' = [fn |-> "start_cleanup_scheduler", started |-> FALSE]
            /\ UNCHANGED <<running, loops>>
       ELSE /\ Len(loops) < MaxLoops
            /\ running' = TRUE
            /\ loops' = Append(loops, NewLoop)
            /\ call' = [fn |-> "start_cleanup_scheduler", started |-> TRUE]
    /\ UNCHANGED <<uploaded_files, file_ids, temp_files, clf, jobVars,
                   pipeVars, resp, requests, now, granted>>

\* stop_cleanup_scheduler: the flag is cleared; no thread is joined.
stop_cleanup_scheduler ==
    /\ running' = FALSE
    /\ loops' = [i \in DOMAIN loops |->
                    IF loops[i].pc # "exited"
                    THEN [loops[i] EXCEPT !.stopped = TRUE]
                    ELSE loops[i]]
    /\ call' = [fn |-> "stop_cleanup_scheduler"]
    /\ UNCHANGED <<uploaded_files, file_ids, temp_files, clf, jobVars,
                   pipeVars, resp, requests, now, granted>>

\* _cleanup_loop: the test of `while self.running`.
loop_test(i) ==
    /\ loops[i].pc = "test"
    /\ loops' = [loops EXCEPT ![i] =
                    IF running
                    THEN [@ EXCEPT !.pc = "cleanup",
                                   !.passes_after_stop = @ \/ loops[i].stopped]
                    ELSE [@ EXCEPT !.pc = "exited"]]
    /\ UNCHANGED <<uploaded_files, file_ids, temp_files, clf, jobVars,
                   pipeVars, resp, call, requests, now, granted, running>>

\* _cleanup_loop: cleanup_old_files(), whose exceptions are caught.
loop_cleanup(i) ==
    /\ loops[i].pc = "cleanup"
    /\ loops' = [loops EXCEPT ![i].pc = "sleep"]
    /\ UNCHANGED <<uploaded_files, file_ids, temp_files, clf, jobVars,
                   pipeVars, resp, call, requests, now, granted, running>>

\* _cleanup_loop: time.sleep(self.cleanup_interval) returns.
loop_wake(i) ==
    /\ loops[i].pc = "sleep"
    /\ loops' = [loops EXCEPT ![i].pc = "test"]
    /\ UNCHANGED <<uploaded_files, file_ids, temp_files, clf, jobVars,
                   pipeVars, resp, call, requests, now, granted, running>>

NextCleanup ==
    \/ start_cleanup_scheduler
    \/ stop_cleanup_scheduler
    \/ \E i \in DOMAIN loops : loop_test(i)
    \/ \E i \in DOMAIN loops : loop_cleanup(i)
    \/ \E i \in DOMAIN loops : loop_wake(i)

SpecCleanup == Init /\ [][NextCleanup]_vars

---------------------------------------------------------------------------
(* AudioClassifier (src/models/classifier.py).                             *)
(* Times are whole milliseconds. zcr_mean and rms_std are in thousandths,  *)
(* beat_strength in tenths, the spectral features in Hz, tempo in BPM.     *)

clip_length == 30000

\* The durations librosa.get_duration returns: on each threshold and just
\* below it, an even number of milliseconds each, so that duration / 2 is
\* exact.
Durations == {29998, 30000, 89998, 90000}

\* Sampling points chosen with the first comparison non-strict.
points_to_check_inclusive(duration) ==
    IF duration <= clip_length THEN <<0>>
    ELSE IF duration < 90000
    THEN <<0, (duration \div 2) - (clip_length \div 2)>>
    ELSE <<0, (duration \div 2) - (clip_length \div 2),
           IF duration - clip_length > 0 THEN duration - clip_length ELSE 0>>

\* classify, "Determine sampling points".
points_to_check(duration) ==
    IF duration < clip_length THEN <<0>>
    ELSE IF duration < 90000
    THEN <<0, (duration \div 2) - (clip_length \div 2)>>
    ELSE <<0, (duration \div 2) - (clip_length \div 2),
           IF duration - clip_length > 0 THEN duration - clip_length ELSE 0>>

FeatureNames ==
    {"zcr_mean", "beat_strength", "spectral_rolloff_mean",
     "spectral_centroid_mean", "spectral_centroid_std",
     "spectral_bandwidth_mean", "rms_std", "mfcc_std", "tempo"}

\* The values each feature is drawn from: one inside every interval that
\* _make_decision distinguishes, and the thresholds themselves.
FeatureValues ==
    [zcr_mean |-> {50, 80, 150, 200},
     beat_strength |-> {5, 6, 10, 20, 25},
     spectral_rolloff_mean |-> {2000, 3000, 6000, 7000},
     spectral_centroid_mean |-> {1000, 1800, 3500, 4000},
     spectral_centroid_std |-> {1200, 1500},
     spectral_bandwidth_mean |-> {1000, 1200, 2000, 2500},
     rms_std |-> {10, 30, 70, 90},
     mfcc_std |-> {40, 100, 101},
     tempo |-> {0, 60, 120, 200, 250}]

\* A feature vector on which no rule of _make_decision fires.
NoRuleFires ==
    [zcr_mean |-> 80, beat_strength |-> 10, spectral_rolloff_mean |-> 3000,
     spectral_centroid_mean |-> 1800, spectral_centroid_std |-> 1200,
     spectral_bandwidth_mean |-> 1200, rms_std |-> 30, mfcc_std |-> 40,
     tempo |-> 60]

\* The features of a clip of a pure sine wave: few zero crossings, constant
\* energy, no beat and no tempo found, a narrow spectrum low in frequency.
SineWaveFeatures ==
    { [zcr_mean |-> 50, beat_strength |-> 5, spectral_rolloff_mean |-> 2000,
       spectral_centroid_mean |-> 1000, spectral_centroid_std |-> s,
       spectral_bandwidth_mean |-> 1000, rms_std |-> 10, mfcc_std |-> m,
       tempo |-> 0] :
          s \in FeatureValues.spectral_centroid_std,
          m \in FeatureValues.mfcc_std }

\* The feature vectors _extract_features returns: every choice of values
\* for up to two features with the others where no rule fires, and the
\* sine-wave clips.
FeatureVectors ==
    UNION { { [NoRuleFires EXCEPT ![n] = v, ![m] = w] :
                  v \in FeatureValues[n], w \in FeatureValues[m] } :
            n \in FeatureNames, m \in FeatureNames }
    \cup SineWaveFeatures

\* The rules of _make_decision in the order of the code. Each is the pair
\* <<added to music_score, added to speech_score>> for a feature vector.
zcr_rule(f) ==
    IF f.zcr_mean > 150 THEN <<0, 3>>
    ELSE IF f.zcr_mean < 80 THEN <<3, 0>>
    ELSE <<0, 0>>

beat_rule(f) ==
    IF f.beat_strength > 20 THEN <<4, 0>>
    ELSE IF f.beat_strength < 6 THEN <<0, 3>>
    ELSE IF f.beat_strength < 10 THEN <<0, 1>>
    ELSE <<0, 0>>

rolloff_rule(f) ==
    IF f.spectral_rolloff_mean > 6000 THEN <<2, 0>>
    ELSE IF f.spectral_rolloff_mean < 3000 THEN <<0, 2>>
    ELSE <<0, 0>>

centroid_rule(f) ==
    IF f.spectral_centroid_mean < 1800 THEN <<0, 2>>
    ELSE IF f.spectral_centroid_mean > 3500 THEN <<2, 0>>
    ELSE <<0, 0>>

centroid_std_rule(f) ==
    IF f.spectral_centroid_std > 1200
    THEN IF f.zcr_mean > 150 THEN <<0, 1>> ELSE <<1, 0>>
    ELSE <<0, 0>>

bandwidth_rule(f) ==
    IF f.spectral_bandwidth_mean > 2000 THEN <<1, 0>>
    ELSE IF f.spectral_bandwidth_mean < 1200 THEN <<0, 1>>
    ELSE <<0, 0>>

rms_rule(f) ==
    IF f.rms_std < 30 THEN <<2, 0>>
    ELSE IF f.rms_std > 70 THEN <<0, 2>>
    ELSE <<0, 0>>

mfcc_rule(f) ==
    IF f.mfcc_std > 100 THEN <<0, 2>>
    ELSE IF f.mfcc_std > 40 THEN <<1, 0>>
    ELSE <<0, 0>>

tempo_rule(f) ==
    IF f.tempo < 60 \/ f.tempo > 200 THEN <<0, 1>>
    ELSE IF 80 <= f.tempo /\ f.tempo <= 180 THEN <<1, 0>>
    ELSE <<0, 0>>

Rules(f) ==
    <<zcr_rule(f), beat_rule(f), rolloff_rule(f), centroid_rule(f),
      centroid_std_rule(f), bandwidth_rule(f), rms_rule(f), mfcc_rule(f),
      tempo_rule(f)>>

\* music_score (side 1) and speech_score (side 2) after the rules: each
\* starts at 0 and every rule adds its weight.
RECURSIVE Score(_, _)
Score(rules, side) ==
    IF rules = << >> THEN 0
    ELSE Head(rules)[side] + Score(Tail(rules), side)

\* _make_decision answering music on equal scores.
_make_decision_ties_music(features) ==
    IF Score(Rules(features), 1) >= Score(Rules(features), 2)
    THEN "music" ELSE "speech"

_make_decision(features) ==
    LET music_score == Score(Rules(features), 1)
        speech_score == Score(Rules(features), 2)
    IN IF music_score > speech_score THEN "music" ELSE "speech"

\* Counter(decisions)[label]
vote_count(decisions, label) ==
    Cardinality({ i \in DOMAIN decisions : decisions[i] = label })

\* The position at which Counter first met a label.
first_seen(decisions, label) ==
    CHOOSE i \in DOMAIN decisions :
        /\ decisions[i] = label
        /\ \A j \in 1..(i - 1) : decisions[j] # label

\* Vote counting that prefers the label met last among equal counts.
most_common_last(decisions) ==
    LET labels == { decisions[i] : i \in DOMAIN decisions }
        best == { l \in labels : \A m \in labels :
                      vote_count(decisions, l) >= vote_count(decisions, m) }
    IN CHOOSE l \in best : \A m \in best :
           first_seen(decisions, l) >= first_seen(decisions, m)

\* Counter(decisions).most_common(1)[0][0]: the counts are sorted by count,
\* largest first, and equal counts stay in the order the labels were met.
most_common(decisions) ==
    LET labels == { decisions[i] : i \in DOMAIN decisions }
        best == { l \in labels : \A m \in labels :
                      vote_count(decisions, l) >= vote_count(decisions, m) }
    IN CHOOSE l \in best : \A m \in best :
           first_seen(decisions, l) <= first_seen(decisions, m)

\* The paths classify is called with: a WAV file and one that is converted.
ClassifiedPaths ==
    { UploadPath(<<"my_song", "wav">>), UploadPath(<<"song", "MP3">>) }

\* The except block of classify: the run ends and None is returned.
ClassifyFailed ==
    [clf EXCEPT !.pc = "done", !.by = "AudioClassifier", !.result = None]

\* classify up to the call of librosa.get_duration: a path that is not a
\* WAV is decoded with pydub, a temporary file is made, and the audio is
\* exported into it; either pydub call may raise.
classify_convert ==
    /\ clf.pc = "idle"
    /\ \E audio_path \in ClassifiedPaths,
          convert \in {"ok", "raise", "export_raise"} :
          IF EndsWithWav(audio_path)
          THEN /\ clf' = [clf EXCEPT !.pc = "duration",
                                     !.by = "AudioClassifier"]
               /\ UNCHANGED temp_files
          ELSE IF convert = "ok"
          THEN /\ clf' = [clf EXCEPT !.pc = "duration",
                                     !.by = "AudioClassifier",
                                     !.cleanup_temp = TRUE]
               /\ temp_files' = temp_files + 1
          ELSE IF convert = "raise"
          THEN /\ clf' = ClassifyFailed
               /\ UNCHANGED temp_files
          ELSE /\ clf' = ClassifyFailed
               /\ temp_files' = temp_files + 1
    /\ UNCHANGED <<uploaded_files, file_ids, jobVars, pipeVars, resp,
                   utilVars>>

\* librosa.get_duration and the choice of the sampling points.
classify_duration ==
    /\ clf.pc = "duration"
    /\ \/ \E duration \in Durations :
              clf' = [clf EXCEPT !.pc = "sample", !.duration = duration,
                          !.points_to_check = points_to_check(duration)]
       \/ clf' = ClassifyFailed
    /\ UNCHANGED <<uploaded_files, file_ids, temp_files, jobVars, pipeVars,
                   resp, utilVars>>

\* One pass of the loop: librosa.load of the clip at the next point,
\* _extract_features, _make_decision. The load or the extraction may raise.
classify_sample ==
    /\ clf.pc = "sample"
    /\ Len(clf.decisions) < Len(clf.points_to_check)
    /\ \/ \E features \in FeatureVectors :
              clf' = [clf EXCEPT
                          !.features = Some(features),
                          !.decisions = Append(@, _make_decision(features))]
       \/ clf' = ClassifyFailed
    /\ UNCHANGED <<uploaded_files, file_ids, temp_files, jobVars, pipeVars,
                   resp, utilVars>>

\* After the loop: the temporary file is unlinked and the votes counted.
classify_vote ==
    /\ clf.pc = "sample"
    /\ Len(clf.decisions) = Len(clf.points_to_check)
    /\ temp_files' = IF clf.cleanup_temp THEN temp_files - 1 ELSE temp_files
    /\ clf' = [clf EXCEPT !.pc = "done",
                          !.result = Some(most_common(clf.decisions))]
    /\ UNCHANGED <<uploaded_files, file_ids, jobVars, pipeVars, resp,
                   utilVars>>

\* One call of YAMNetClassifier.classify.
yamnet_classify ==
    /\ clf.pc = "idle"
    /\ \E audio_path \in ClassifiedPaths, env \in ClassifyEnvs :
          /\ clf' = [clf EXCEPT !.pc = "done", !.by = "YAMNetClassifier",
                                !.result = YAMNetClassify(audio_path, env)]
          /\ temp_files' = temp_files + YAMNetTempLeft(audio_path, env)
    /\ UNCHANGED <<uploaded_files, file_ids, jobVars, pipeVars, resp,
                   utilVars>>

\* The classifiers alone: one call of classify from the state after
\* construction.
NextClassifier ==
    \/ classify_convert
    \/ classify_duration
    \/ classify_sample
    \/ classify_vote
    \/ yamnet_classify

---------------------------------------------------------------------------

\* The engine instance whose call the thread of a job is in: the
\* processors are module-level singletons, so every music thread calls the
\* same Demucs and Whisper models and every speech thread the same
\* DeepFilterNet and Whisper models. "-" outside those calls.
EngineInUse(job_id) ==
    LET t == thread[job_id] IN
    CASE t.target = "music" /\ t.pc = "demucs" ->
             "music_processor.demucs_model"
      [] t.target = "music" /\ t.pc = "whisper" ->
             "music_processor.whisper_model"
      [] t.target = "speech" /\ t.pc = "denoise" ->
             "speech_processor.df_model"
      [] t.target = "speech" /\ t.pc = "whisper" ->
             "speech_processor.whisper_model"
      [] OTHER -> "-"

Pipeline(job_id) ==
    \/ music_start(job_id) \/ music_load(job_id) \/ music_demucs(job_id)
    \/ music_whisper(job_id) \/ music_analyze(job_id) \/ music_dump(job_id)
    \/ speech_start(job_id) \/ speech_load(job_id) \/ speech_denoise(job_id)
    \/ speech_whisper(job_id) \/ speech_save(job_id) \/ speech_dump(job_id)
    \/ dump_error(job_id)
    \/ background_finish(job_id)

\* The request layer alone, from the state after construction: pipeline
\* threads are started and not yet scheduled.
NextFront ==
    \/ upload_audio
    \/ confirm_rejected
    \/ confirm_register
    \/ confirm_start

SpecFront == Init /\ [][NextFront]_vars

SpecClassifier == Init /\ [][NextClassifier]_vars

\* The state after the uploads: every file id of the bound has been handed
\* out, "my_song.wav" was uploaded twice and classified once as music and
\* once as speech, and any further upload failed to classify.
StoredFile(detected_type) ==
    [filename |-> <<"my_song", "wav">>,
     filepath |-> UploadPath(<<"my_song", "wav">>),
     detected_type |-> detected_type]

Uploaded ==
    /\ uploaded_files = <<StoredFile("music"), StoredFile("speech")>>
    /\ file_ids = IF MaxFiles > 2 THEN MaxFiles ELSE 2
    /\ processing_jobs = << >>
    /\ job_ids = 0
    /\ confirming = None
    /\ thread = << >>
    /\ current_progress = [music |-> << >>, speech |-> << >>]
    /\ written = << >>
    /\ processed = << >>
    /\ resp = NoResp
    /\ temp_files = 0
    /\ clf = NoRun
    /\ UtilInit

\* The jobs: requests and pipeline threads interleaved.
Next ==
    \/ confirm_register
    \/ confirm_start
    \/ get_status_endpoint
    \/ get_results_endpoint
    \/ \E job_id \in 1..MaxJobs : Pipeline(job_id)

Spec == Uploaded /\ [][Next]_vars

\* The jobs and the downloads of their artifacts.
NextDownload ==
    \/ Next
    \/ download_stem
    \/ download_speech_audio
    \/ download_transcript

SpecDownload == Uploaded /\ [][NextDownload]_vars

\* The steps that need no request: a confirmation that has written the
\* registry goes on to thread.start(), and a started thread goes on to its
\* next statement (every engine call returns or raises).
RunnableStep ==
    \/ confirm_start
    \/ \E job_id \in 1..MaxJobs : Pipeline(job_id)

\* The confirmations and the pipeline threads; the reads and downloads,
\* which write nothing a job depends on, are left to Spec and SpecDownload.
NextLive ==
    \/ confirm_register
    \/ RunnableStep

\* The jobs under fair scheduling: while some confirmation or thread can
\* take a step, one of them eventually does.
SpecLive == Uploaded /\ [][NextLive]_vars /\ WF_vars(RunnableStep)

---------------------------------------------------------------------------
(* Properties of the jobs, checked under Spec.                             *)

\* C1: a registry entry is created with status processing, its status only
\* moves from processing to completed or failed, and an entry that is
\* completed or failed is left exactly as it is by every step (runner,
\* status read, results read, confirmation).
C1_RegistryOnlyMovesForward ==
    [][ /\ \A j \in DOMAIN processing_jobs :
              /\ j \in DOMAIN processing_jobs'
              /\ processing_jobs[j].status \in {"completed", "failed"}
                    => processing_jobs'[j] = processing_jobs[j]
              /\ processing_jobs[j].status = "processing"
                    => processing_jobs'[j].status
                           \in {"processing", "completed", "failed"}
              /\ processing_jobs[j].status
                     \in {"processing", "completed", "failed"}
        /\ \A j \in DOMAIN processing_jobs' \ DOMAIN processing_jobs :
              processing_jobs'[j].status = "processing" ]_vars

\* A finished job, a later confirmed job still running, and a status read
\* answered in between.
C1_Witness ==
    /\ resp.op = "status"
    /\ \E j, k \in DOMAIN thread :
          /\ j < k
          /\ processing_jobs[j].status = "completed"
          /\ processing_jobs[k].status = "processing"

C5_TerminalAnswerIsStable ==
    [][ (processing_jobs' # processing_jobs
         \/ processed' # processed
         \/ current_progress' # current_progress) =>
            \A j \in PolledIds, proc \in ContentTypes :
                LET r == StatusResponse(proc, j) IN
                r.status \in {"completed", "failed"}
                    => StatusResponse(proc, j)' = r ]_vars

\* A status read was answered failed for one job while another job's
\* pipeline was still inside process.
C5_Witness ==
    /\ resp.op = "status"
    /\ \E j, k \in DOMAIN thread :
          /\ StatusResponse(thread[j].target, j).status = "failed"
          /\ thread[k].pc \notin {"start", "returned", "done"}

\* C6: when the noise-suppression engine raises in a speech job, no handler
\* is entered for it; transcription and save_audio get the loaded audio, the
\* transcript is Whisper's text of the loaded audio (unless Whisper raised
\* too), the saved file is the normalized loaded audio, and when no later
\* stage raises into the handler the persisted record is completed.
C6_NoiseFallbackKeepsJob ==
    \A j \in DOMAIN thread :
        LET t == thread[j] IN
        /\ t.failed_at # "denoise"
        /\ (t.target = "speech" /\ "denoise" \in t.swallowed) =>
            /\ t.exc = None
            /\ t.clean_audio = LoadedAudio
            /\ (t.pc \in {"save", "dump", "returned", "done"}
                /\ "whisper" \notin t.swallowed)
                   => t.transcript = "text of loaded audio"
            /\ t.pc \in {"dump", "returned", "done"}
                   => processed[j].clean_audio = "normalized loaded audio"
            /\ t.pc \in {"returned", "done"} =>
                   /\ processed[j].metadata.state = "complete"
                   /\ processed[j].metadata.data.status = "completed"
                   /\ processed[j].metadata.data.transcript = t.transcript

\* A speech job whose noise suppression raised, and nothing else, has ended.
C6_Witness ==
    \E j \in DOMAIN thread :
        /\ thread[j].target = "speech"
        /\ thread[j].swallowed = {"denoise"}
        /\ thread[j].pc = "done"

C23_RegistryAgreesWithRecord ==
    \A job_id \in DOMAIN processing_jobs :
        LET metadata == get_metadata(job_id) IN
        /\ processing_jobs[job_id].status = "completed" =>
               (metadata # None /\ metadata[1].status = "completed")
        /\ (metadata # None /\ metadata[1].status = "failed") =>
               processing_jobs[job_id].status # "completed"

\* C24: once a confirmation has returned a job id (its thread was
\* started), every status poll for that job id, on either status
\* endpoint and at any point of the pipeline thread, is answered 200 with
\* status processing, completed or failed, never not_found.
C24_ConfirmedJobIsNeverNotFound ==
    \A job_id \in DOMAIN thread, proc \in ContentTypes :
        LET response == StatusResponse(proc, job_id) IN
        /\ response.code = 200
        /\ response.status \in {"processing", "completed", "failed"}

\* A status poll was answered for a confirmed job that has nothing on disk
\* yet, and one for a job whose runner has finished.
C24_Witness ==
    /\ resp.op = "status"
    /\ \E job_id \in DOMAIN thread :
          /\ job_id \notin DOMAIN processed
          /\ StatusResponse("music", job_id).status = "processing"
    /\ \E job_id \in DOMAIN thread :
          /\ thread[job_id].pc = "done"
          /\ StatusResponse("music", job_id).status = "failed"

\* C27: for every job, every percent written to its progress record is in
\* 0..100 or is -1; the percents written before any stage raised start at
\* 0 and never decrease; -1 is written only by the exception handler of
\* process (the thread then is past the raise) and nothing is written
\* after it. The record a poll reads holds the percent written last.
C27_ProgressIsMonotone ==
    \A job_id \in DOMAIN written :
        LET w == written[job_id]
            n == Len(w)
            t == thread[job_id]
            before == IF w[n] = -1 THEN n - 1 ELSE n
        IN /\ \A i \in 1..n : w[i] \in 0..100 \cup {-1}
           /\ \A i \in 1..before : w[i] # -1
           /\ before >= 1 => w[1] = 0
           /\ \A i \in 1..(before - 1) : w[i] <= w[i + 1]
           /\ w[n] = -1 <=> t.exc # None
           /\ job_id \in DOMAIN current_progress[t.target] =>
                  current_progress[t.target][job_id].percent = w[n]

\* A music job wrote every percent up to 100 and then failed in the save of
\* its metadata: the handler's -1 came last.
C27_Witness ==
    \E job_id \in DOMAIN written :
        written[job_id] = <<0, 10, 20, 60, 70, 75, 90, 95, 100, -1>>

\* C28: the progress updates, progress clearing, metadata saves and
\* registry writes of a step of job j's pipeline leave the progress
\* record, the job directory with its metadata record and the registry
\* entry of every other job id as they were, present or absent, whatever
\* the other pipelines are doing.
C28_PipelineTouchesOnlyItsJob ==
    [][\A j \in DOMAIN thread :
          thread'[j] # thread[j] =>
              \A k \in PolledIds \ {j} :
                  /\ \A proc \in ContentTypes :
                        /\ k \in DOMAIN current_progress'[proc]
                               <=> k \in DOMAIN current_progress[proc]
                        /\ k \in DOMAIN current_progress[proc] =>
                               current_progress'[proc][k]
                                   = current_progress[proc][k]
                  /\ k \in DOMAIN processed' <=> k \in DOMAIN processed
                  /\ k \in DOMAIN processed =>
                         processed'[k] = processed[k]
                  /\ k \in DOMAIN processing_jobs'
                         <=> k \in DOMAIN processing_jobs
                  /\ k \in DOMAIN processing_jobs =>
                         processing_jobs'[k] = processing_jobs[k]]_vars

\* Two jobs of the same processor are in the middle of their pipelines at
\* different percents, one of them with its metadata file opened.
C28_Witness ==
    \E j \in DOMAIN thread, k \in DOMAIN thread :
        /\ j # k
        /\ thread[j].target = thread[k].target
        /\ j \in DOMAIN current_progress[thread[j].target]
        /\ k \in DOMAIN current_progress[thread[k].target]
        /\ current_progress[thread[j].target][j].percent
               > current_progress[thread[k].target][k].percent
        /\ current_progress[thread[k].target][k].percent > 0
        /\ MetadataRaises(j)

\* C25: a results fetch or metadata read concurrent with the pipeline's
\* save_metadata of the same job id finds no record or the complete
\* record; it never finds an empty or partly written record and never
\* raises because of the write.
C25_ReadsSeeWholeRecords ==
    \A job_id \in DOMAIN thread :
        /\ ~MetadataRaises(job_id)
        /\ job_id \in DOMAIN processed =>
               processed[job_id].metadata.state \in {"absent", "complete"}
        /\ \A proc \in ContentTypes :
               ResultsResponse(proc, job_id).code = 500 =>
                   /\ get_metadata(job_id) # None
                   /\ get_metadata(job_id)[1].content_type # proc

---------------------------------------------------------------------------
(* Properties of the request layer, checked under SpecFront.               *)

\* C8: an upload during whose classification the decode or the inference
\* raised is answered 500 "Failed to classify audio" and the file id drawn
\* for it has no Uploaded File record; a file id without a record is never
\* the file of a confirmation in flight or of a confirmation answered 200.
C8_FailedClassificationStoresNothing ==
    /\ (resp.op = "upload" /\ resp.code # 400
        /\ resp.raised \cap {"load", "model"} # {}) =>
            /\ resp.code = 500
            /\ resp.error = "Failed to classify audio"
            /\ file_ids \notin DOMAIN uploaded_files
    /\ (resp.op = "upload" /\ resp.code = 200) =>
            /\ resp.raised \subseteq {"convert"}
            /\ uploaded_files[resp.file_id].detected_type
                   = resp.detected_type
    /\ \A file_id \in (1..file_ids) \ DOMAIN uploaded_files :
            /\ confirming # None => confirming[1].file_id # file_id
            /\ (resp.op = "confirm" /\ resp.code = 200)
                   => resp.file_id # file_id

\* An upload whose decode or inference raised was answered after an earlier
\* upload had been stored and a job confirmed from it.
C8_Witness ==
    /\ resp.op = "upload"
    /\ resp.code = 500
    /\ resp.raised \cap {"load", "model"} # {}
    /\ DOMAIN uploaded_files # {}
    /\ DOMAIN thread # {}

\* C9: a step that changes the job registry is the registry write of a
\* confirmation of a stored file with a valid content type; a step that
\* changes the threads is that confirmation's thread start, answered 200;
\* a step answered as an upload (any code) or as a confirmation with 404 or
\* 400 leaves registry, threads and job ids as they are.
C9_OnlyConfirmationCreatesJobs ==
    [][ /\ processing_jobs' # processing_jobs =>
              /\ confirming = None /\ confirming' # None
              /\ confirming'[1].file_id \in DOMAIN uploaded_files
              /\ confirming'[1].content_type \in ContentTypes
              /\ DOMAIN processing_jobs' =
                     DOMAIN processing_jobs \cup {confirming'[1].job_id}
        /\ thread' # thread =>
              /\ confirming # None /\ confirming' = None
              /\ resp'.op = "confirm" /\ resp'.code = 200
              /\ DOMAIN thread' = DOMAIN thread \cup {confirming[1].job_id}
        /\ (resp'.op = "upload"
            \/ (resp'.op = "confirm" /\ resp'.code # 200)) =>
              UNCHANGED <<processing_jobs, thread, job_ids, confirming>>
      ]_vars

\* A confirmation was rejected while a job was registered and started.
C9_Witness ==
    /\ resp.op = "confirm"
    /\ resp.code \in {400, 404}
    /\ DOMAIN thread # {}
    /\ DOMAIN thread = DOMAIN processing_jobs

\* C10: a confirmation past its validation holds the override when the body
\* gave one and the detected type otherwise, has written one registry entry
\* [processing, that type] under a new job id and has not yet started the
\* thread; once answered 200, one thread of that type runs on the stored
\* path of the confirmed file. There is one entry per confirmation and one
\* thread per answered confirmation, each thread under an existing entry of
\* its type.
C10_ConfirmationStartsOnePipeline ==
    /\ confirming # None =>
          LET c == confirming[1] IN
          /\ c.file_id \in DOMAIN uploaded_files
          /\ c.content_type =
                 IF c.override = NoOverride
                 THEN uploaded_files[c.file_id].detected_type
                 ELSE c.override
          /\ c.content_type \in {"music", "speech"}
          /\ c.job_id \in DOMAIN processing_jobs
          /\ processing_jobs[c.job_id] =
                 [status |-> "processing", type |-> c.content_type]
          /\ c.job_id \notin DOMAIN thread
    /\ (resp.op = "confirm" /\ resp.code = 200) =>
          /\ resp.job_id \in DOMAIN thread
          /\ thread[resp.job_id].target = resp.content_type
          /\ thread[resp.job_id].audio_path =
                 uploaded_files[resp.file_id].filepath
          /\ thread[resp.job_id].pc = "start"
          /\ processing_jobs[resp.job_id] =
                 [status |-> "processing", type |-> resp.content_type]
    /\ DOMAIN thread \subseteq DOMAIN processing_jobs
    /\ \A j \in DOMAIN thread : thread[j].target = processing_jobs[j].type
    /\ Cardinality(DOMAIN processing_jobs) = job_ids
    /\ Cardinality(DOMAIN thread) =
           job_ids - (IF confirming = None THEN 0 ELSE 1)

\* A confirmation whose body overrode the detected type was answered 200
\* after an earlier confirmation.
C10_Witness ==
    /\ resp.op = "confirm"
    /\ resp.code = 200
    /\ resp.content_type # uploaded_files[resp.file_id].detected_type
    /\ Cardinality(DOMAIN thread) = 2

\* C12: for a job id with no registry entry and no persisted metadata
\* record, the status endpoints answer not_found and the results endpoints
\* answer the job-not-found error, both as ordinary answers (no exception
\* reaches the framework); and a status or results read leaves the
\* registry, the progress records and the job directories as they were.
C12_UnknownJobIsNotFound ==
    /\ [](\A j \in PolledIds, proc \in ContentTypes :
            (j \notin DOMAIN processing_jobs /\ get_metadata(j) = None) =>
                /\ StatusResponse(proc, j).code = 200
                /\ StatusResponse(proc, j).status = "not_found"
                /\ ResultsResponse(proc, j).code = 404
                /\ ResultsResponse(proc, j).error = "Job not found")
    /\ [][ resp'.op \in {"status", "results"} =>
               /\ processing_jobs' = processing_jobs
               /\ current_progress' = current_progress
               /\ processed' = processed ]_vars

\* A results read was answered while one job id had neither a registry
\* entry nor a record and another job's record was on disk.
C12_Witness ==
    /\ resp.op = "results"
    /\ \E j \in PolledIds :
          /\ j \notin DOMAIN processing_jobs
          /\ get_metadata(j) = None
    /\ \E k \in DOMAIN processing_jobs : get_metadata(k) # None

\* C13: a progress record for a job exists from the start of its pipeline
\* and is deleted on terminal status: once process has returned for a job
\* id, completed or failed, get_progress for that id is none.
C13_ProgressDeletedOnTermination ==
    \A j \in DOMAIN thread :
        LET proc == thread[j].target IN
        /\ thread[j].pc \notin {"start", "returned", "done"} =>
               get_progress(proc, j) # None
        /\ thread[j].pc \in {"returned", "done"} =>
               get_progress(proc, j) = None

\* C18: no two pipeline threads are inside a call of the same engine
\* instance (stem separator, speech-to-text model, noise-suppression
\* model) at the same time.
C18_EngineAccessSerialized ==
    \A j, k \in DOMAIN thread :
        (j # k /\ EngineInUse(j) # "-") => EngineInUse(j) # EngineInUse(k)

\* C26: any two Uploaded File records have different stored paths, also
\* when the two uploads carried the same filename, so that a later upload
\* never overwrites the source file of an earlier one.
C26_StoredPathsDiffer ==
    \A f1 \in DOMAIN uploaded_files, f2 \in DOMAIN uploaded_files :
        f1 # f2 => uploaded_files[f1].filepath # uploaded_files[f2].filepath

---------------------------------------------------------------------------
(* Properties of the jobs under fair scheduling, checked under SpecLive.   *)

---------------------------------------------------------------------------
(* Properties of the classifiers, checked under SpecClassifier.            *)

\* C14: for every duration d the heuristic classifier chooses 1 sampling
\* point if d < 30 s, 2 if 30 s <= d < 90 s and 3 otherwise; every offset
\* is non-negative, and offset + 30 s <= d for every offset except the
\* offset 0 used when d < 30 s.
C14_SamplingPointsFitTheClip ==
    clf.points_to_check # << >> =>
        LET d == clf.duration
            points == clf.points_to_check
        IN /\ Len(points) =
                  (IF d < 30000 THEN 1 ELSE IF d < 90000 THEN 2 ELSE 3)
           /\ \A i \in DOMAIN points :
                 /\ points[i] >= 0
                 /\ \/ points[i] + 30000 <= d
                    \/ d < 30000 /\ points[i] = 0

\* A clip of exactly 30 s got two sampling points, both at 0, and the loop
\* is running.
C14_Witness ==
    /\ clf.pc = "sample"
    /\ clf.duration = 30000
    /\ clf.points_to_check = <<0, 0>>

\* C15: the label of a sample is music exactly when the sum of the weights
\* of the rules that fired for music is greater than the sum for speech,
\* and speech otherwise: equal sums, also when no rule fired, give speech.
\* Every rule adds to at most one of the two sums, and the label is
\* determined by the feature values alone, whatever the clip, its duration
\* and the labels before it.
C15_LabelComparesTheScores ==
    clf.features # None =>
        LET f == clf.features[1]
            label == clf.decisions[Len(clf.decisions)]
            music_score == Score(Rules(f), 1)
            speech_score == Score(Rules(f), 2)
        IN /\ \A i \in DOMAIN Rules(f) :
                 /\ Rules(f)[i][1] >= 0 /\ Rules(f)[i][2] >= 0
                 /\ Rules(f)[i][1] = 0 \/ Rules(f)[i][2] = 0
           /\ label = (IF music_score > speech_score THEN "music"
                       ELSE "speech")
           /\ music_score = speech_score => label = "speech"
           /\ f = NoRuleFires => music_score = 0 /\ speech_score = 0

\* The second sample of a clip had few zero crossings and a weak beat and
\* nothing else: three points on each side, and its label is speech.
C15_Witness ==
    /\ clf.pc = "sample"
    /\ Len(clf.decisions) = 2
    /\ clf.features =
           Some([NoRuleFires EXCEPT !.zcr_mean = 50, !.beat_strength = 5])
    /\ clf.decisions[2] = "speech"

\* C16: the verdict of the heuristic classifier is a label whose vote count
\* among the per-sample labels is maximal; with 1 or 3 samples it has a
\* strict majority; with 2 samples that disagree it is the label of the
\* first sample.
C16_VerdictIsTheMode ==
    (clf.pc = "done" /\ clf.by = "AudioClassifier" /\ clf.result # None) =>
        LET verdict == clf.result[1]
            decisions == clf.decisions
            n == Len(decisions)
        IN /\ n = Len(clf.points_to_check)
           /\ \A label \in ContentTypes :
                 vote_count(decisions, verdict)
                     >= vote_count(decisions, label)
           /\ n \in {1, 3} => 2 * vote_count(decisions, verdict) > n
           /\ (n = 2 /\ decisions[1] # decisions[2]) =>
                 verdict = decisions[1]

\* Two samples disagreed, speech first, and the verdict is speech.
C16_Witness ==
    /\ clf.pc = "done"
    /\ clf.decisions = <<"speech", "music">>
    /\ clf.result = Some("speech")

\* C17: a sample with zcr_mean < 0.08 and rms_std < 0.03 is labelled music
\* even with beat_strength < 0.6, whatever the remaining features of a
\* pure sine-wave clip are (low spectral centroid, rolloff and bandwidth,
\* no tempo detected).
C17_SineWaveIsMusic ==
    clf.features # None =>
        LET f == clf.features[1] IN
        (/\ f.zcr_mean < 80
         /\ f.rms_std < 30
         /\ f.beat_strength < 6
         /\ f.spectral_centroid_mean < 1800
         /\ f.spectral_rolloff_mean < 3000
         /\ f.spectral_bandwidth_mean < 1200
         /\ f.tempo < 60)
            => clf.decisions[Len(clf.decisions)] = "music"

\* C20: every temporary WAV file a classifier made for the conversion is
\* deleted before classify returns, on every exit path.
C20_NoTempFileAfterClassify ==
    clf.pc = "done" => temp_files = 0

---------------------------------------------------------------------------
(* Properties of the helper functions, checked under SpecHelpers.          *)

\* The number a sequence of decimal digits stands for.
RECURSIVE DigitsValue(_)
DigitsValue(digits) ==
    IF digits = << >> THEN 0
    ELSE 10 * DigitsValue(SubSeq(digits, 1, Len(digits) - 1))
             + digits[Len(digits)]

\* C21: a stem's active flag is true exactly when the root-mean-square
\* amplitude of its samples is strictly greater than 0.01, that is when the
\* mean of the squared samples is greater than 0.0001; an RMS of exactly
\* 0.01 is inactive, and a stem of all-zero samples is inactive.
C21_ActiveIffRmsAboveThreshold ==
    call.fn = "_check_stem_activity" =>
        LET x == call.arg
            n == Len(x)
        IN /\ call.result \in BOOLEAN
           /\ n > 0 => (call.result <=> SumOfSquares(x) > 100 * n)
           /\ (n > 0 /\ SumOfSquares(x) = 100 * n) => ~call.result
           /\ (\A i \in 1..n : x[i] = 0) => ~call.result

\* A stem whose three samples are all 0.01 in magnitude, so that its RMS is
\* exactly 0.01, was found inactive.
C21_Witness ==
    /\ call.fn = "_check_stem_activity"
    /\ call.arg = <<-10, 10, 10>>
    /\ call.result = FALSE

\* C22: for every time in whole milliseconds the formatter yields
\* HH:MM:SS,mmm with MM in 0..59, SS in 0..59, mmm in 0..999, two, two,
\* two and three digits at least, and HH*3600000 + MM*60000 + SS*1000 +
\* mmm equal to the input; 75.4 seconds gives 00:01:15,400.
C22_TimestampRoundTrips ==
    call.fn = "_format_timestamp_srt" =>
        LET r == call.result
            HH == DigitsValue(r.HH)
            MM == DigitsValue(r.MM)
            SS == DigitsValue(r.SS)
            mmm == DigitsValue(r.mmm)
        IN /\ Len(r.HH) >= 2 /\ Len(r.MM) = 2 /\ Len(r.SS) = 2
           /\ Len(r.mmm) = 3
           /\ MM \in 0..59 /\ SS \in 0..59 /\ mmm \in 0..999
           /\ HH * 3600000 + MM * 60000 + SS * 1000 + mmm = call.arg
           /\ call.arg = 75400 =>
                  r = [HH |-> <<0, 0>>, MM |-> <<0, 1>>, SS |-> <<1, 5>>,
                       mmm |-> <<4, 0, 0>>]

---------------------------------------------------------------------------
(* Properties of the rate limiter, checked under SpecLimiter.              *)

\* C29: for every identifier, of the calls answered allowed (since the
\* identifier's history was last reset) those whose times lie within an
\* interval shorter than time_window number at most max_requests; a denied
\* call appends nothing to the identifier's history; and a call for one
\* identifier leaves the history of every other identifier, which is all
\* its answer depends on besides the time, as it was.
C29_AtMostMaxRequestsPerWindow ==
    /\ [](\A identifier \in DOMAIN granted :
             LET g == granted[identifier] IN
             \A i \in 1..Len(g), j \in 1..Len(g) :
                 (i <= j /\ g[j] - g[i] < time_window) =>
                     j - i + 1 <= max_requests)
    /\ [][/\ (call'.fn = "is_allowed" /\ call' # call
                 /\ ~call'.allowed) =>
                  /\ requests'[call'.identifier]
                         = StillInWindow(History(call'.identifier), now)
                  /\ granted' = granted
          /\ \A identifier \in Identifiers :
                 (requests' # requests /\ call'.identifier # identifier) =>
                     /\ identifier \in DOMAIN requests'
                            <=> identifier \in DOMAIN requests
                     /\ identifier \in DOMAIN requests =>
                            requests'[identifier] = requests[identifier]
       ]_vars

\* An identifier was allowed two calls at time 0 and, the window having
\* passed, two more at time 3; its call at time 5 was denied, while the
\* other identifier had been allowed in between.
C29_Witness ==
    /\ "10.0.0.1" \in DOMAIN granted
    /\ "10.0.0.2" \in DOMAIN granted
    /\ granted["10.0.0.1"] = <<0, 0, 3, 3>>
    /\ granted["10.0.0.2"] = <<2>>
    /\ now = 5
    /\ call.fn = "is_allowed"
    /\ call.identifier = "10.0.0.1"
    /\ ~call.allowed
    /\ call.reset_time = 1

---------------------------------------------------------------------------
(* Properties of the cleanup scheduler, checked under SpecCleanup.         *)

\* C30: under any sequence of start_cleanup_scheduler and
\* stop_cleanup_scheduler calls at most one cleanup loop thread is live at
\* any time, and a loop thread that was live when stop was called begins no
\* further cleanup pass once its current sleep is over (it exits instead),
\* even if the scheduler has been started again in the meantime.
C30_OneLoopAndStopIsFinal ==
    \A i \in DOMAIN loops :
        /\ ~loops[i].passes_after_stop
        /\ \A j \in LiveLoops : i \in LiveLoops => i = j

---------------------------------------------------------------------------
(* Properties of the downloads, checked under SpecDownload.                *)

\* C11 as stated: for a job polled and fetched through the endpoints of its
\* own content type, whenever the status answer is completed the results
\* answer is a completed result and every file it links to is in the job
\* directory (six stems; the cleaned audio and the three transcript
\* exports); the results endpoint answers a result only when the persisted
\* status is completed.
C11_EveryLinkedFileOnDisk ==
    /\ \A j \in DOMAIN processing_jobs :
          LET proc == processing_jobs[j].type IN
          StatusResponse(proc, j).status = "completed" =>
              /\ ResultsResponse(proc, j).code = 200
              /\ ResultsResponse(proc, j).status = "completed"
              /\ \A link \in ResultLinks(proc) : LinkedFileExists(j, link)
    /\ \A j \in PolledIds, proc \in ContentTypes :
          ResultsResponse(proc, j).code = 200 =>
              /\ get_metadata(j) # None
              /\ get_metadata(j)[1].status = "completed"

\* C11, amended: for a job polled and fetched through the endpoints of its
\* own content type, whenever the status answer is completed the results
\* answer is a completed result, the six stem files (music) or the cleaned
\* audio (speech) are in the job directory, and every link of the answer,
\* the three transcript links included, is answered 200 with a file: a
\* transcript export is written by the download request itself and is in
\* the directory from then on. The results endpoint answers a result only
\* when the persisted status is completed.
C11_EveryLinkResolves ==
    /\ \A j \in DOMAIN processing_jobs :
          LET proc == processing_jobs[j].type IN
          StatusResponse(proc, j).status = "completed" =>
              /\ ResultsResponse(proc, j).code = 200
              /\ ResultsResponse(proc, j).status = "completed"
              /\ \A link \in ResultLinks(proc) :
                    /\ LinkResponse(j, link).code = 200
                    /\ link.kind # "transcript" => LinkedFileExists(j, link)
    /\ \A j \in PolledIds, proc \in ContentTypes :
          ResultsResponse(proc, j).code = 200 =>
              /\ get_metadata(j) # None
              /\ get_metadata(j)[1].status = "completed"
    /\ \A j \in DOMAIN processed :
          processed[j].exports # {} => get_metadata(j) # None

\* A completed music job has its six stems, and a completed speech job has
\* had one of its transcripts downloaded while the other two exports were
\* never written.
C11_Witness ==
    /\ resp.op = "download"
    /\ \E j, k \in DOMAIN processing_jobs :
          /\ StatusResponse("music", j).status = "completed"
          /\ processing_jobs[j].type = "music"
          /\ processed[j].stems = ResultStemNames
          /\ processing_jobs[k].type = "speech"
          /\ StatusResponse("speech", k).status = "completed"
          /\ processed[k].exports = {"srt"}

====
